---------------------------- MODULE Spec2Model ----------------------------
(***************************************************************************)
(* A state-machine model of sync_app/public/js/sync_global.js: the         *)
(* floating "sync" control that a ready handler injects into a Frappe      *)
(* desk page, its click handlers, the two confirmation flows and the       *)
(* callbacks of the remote calls they issue.                               *)
(*                                                                         *)
(* The framework (frappe.confirm, frappe.call, frappe.msgprint), jQuery    *)
(* and the user are the environment.  They are modelled by what the        *)
(* script hands to them and what they hand back:                           *)
(*   - frappe.confirm(msg, yes) queues a prompt; the user later accepts    *)
(*     it (the yes callback runs) or declines it (nothing runs);           *)
(*   - frappe.call(args) puts a request in flight; the network later       *)
(*     resolves it with a response r and args.callback(r) runs;            *)
(*   - frappe.msgprint(m) appends m to the notices shown;                  *)
(*   - a click runs the handlers of its target and then, unless one of     *)
(*     them stopped propagation, the handlers bound to the document.       *)
(* JavaScript runs every handler to completion, so each handler is one     *)
(* action, and no other action runs while a click is being dispatched.     *)
(***************************************************************************)
EXTENDS Naturals, Sequences, FiniteSets

(* ------------------------------ bounds -------------------------------- *)

\* How many times the ready handler (lines 5-92) may run on one page.
MaxInit == 2
\* How many remote calls may be issued on one page.
MaxCalls == 2
\* How many confirmation prompts may be pending at once.
MaxPrompts == 1

(* --------------------------- environment ------------------------------ *)

\* typeof frappe / typeof frappe.call, as the test of line 7 sees them:
\* "absent": frappe is undefined; "nocall": frappe exists, frappe.call is
\* undefined; "ready": both exist.
Runtimes == {"absent", "nocall", "ready"}

\* frappe.session.user: the guest sentinel of line 13 and a logged-in user.
Users == {"Guest", "Administrator"}

\* r.message of a response.
Messages == {"OK", "Synced"}

\* The response object r handed to a callback (lines 24, 35): without an
\* error indicator, carrying either message; or with one, in which case the
\* callbacks do not read the message, and one value stands for it.
Responses ==
    [exc : {FALSE}, message : Messages] \cup {[exc |-> TRUE, message |-> "OK"]}

VARIABLES
    runtime,       \* which of Runtimes the page has
    user,          \* frappe.session.user
    page,          \* "loaded" | "unloaded"
    inits,         \* how many times the ready handler has run
    console,       \* the console.warn / console.log lines written
    sessionReads,  \* how many times frappe.session.user was evaluated
    thrown,        \* TRUE once an exception escaped a handler
    dom,           \* the elements with id sync-floating-btn, in document order
    docHandlers,   \* number of click handlers bound to document
    navigated,     \* TRUE once a link's default navigation (href="#") ran
    evt,           \* the click being dispatched, after its target's handlers
    prompts,       \* confirmation prompts displayed and not yet answered
    accepted,      \* per prompt message, how many prompts the user accepted
    calls,         \* every frappe.call issued, in order (its arguments)
    inflight,      \* indexes into calls of the requests not yet resolved
    resolved,      \* the responses delivered, in order: [id, exc, message]
    notices,       \* the messages frappe.msgprint displayed, in order
    last           \* the name of the step taken last ("Init" at first)

vars == <<runtime, user, page, inits, console, sessionReads, thrown, dom,
          docHandlers, navigated, evt, prompts, accepted, calls, inflight,
          resolved, notices, last>>

envVars  == <<runtime, user>>
initVars == <<inits, console, sessionReads, thrown>>
domVars  == <<dom, docHandlers>>
flowVars == <<prompts, accepted, calls, inflight, resolved, notices>>

(* ------------------------- lines 18-38: flows -------------------------- *)

PushPrompt == "Push changes to Master?"
PullPrompt == "Pull changes from Master?"

\* lines 21, 32: the names of the two server operations.
PushMethod == "sync_app.sync.api.sync_up_to_master"
PullMethod == "sync_app.sync.api.sync_down_from_master"

\* Faulty variant (C11): the push call carries the pull call's caption.
SyncUpCall_pullCaption ==
    [method         |-> PushMethod,
     freeze         |-> TRUE,
     freeze_message |-> "Pulling...",
     callback       |-> "up"]

\* lines 20-25: the argument object of the push call.
SyncUpCall ==
    [method         |-> PushMethod,
     freeze         |-> TRUE,
     freeze_message |-> "Pushing...",
     callback       |-> "up"]

\* lines 31-36: the argument object of the pull call.
SyncDownCall ==
    [method         |-> PullMethod,
     freeze         |-> TRUE,
     freeze_message |-> "Pulling...",
     callback       |-> "down"]

\* Faulty variant (C1): the confirmed push issues its call twice.
push_confirmed_twice == <<SyncUpCall, SyncUpCall>>

\* Faulty variant (C10): the push is dropped while another call is unresolved.
push_confirmed_single == IF inflight = {} THEN <<SyncUpCall>> ELSE <<>>

\* lines 19-26: the arrow function handed to frappe.confirm by run_sync_up:
\* the frappe.call invocations it makes.
push_confirmed == <<SyncUpCall>>

\* lines 30-37: the arrow function handed to frappe.confirm by run_sync_down.
pull_confirmed == <<SyncDownCall>>

\* Faulty variant (C3): the same function is also passed as the decline callback.
run_sync_up_both == [message |-> PushPrompt, yes |-> "push", no |-> "push"]

\* lines 18-27: run_sync_up calls frappe.confirm(message, yes) once; the
\* third argument (the decline callback) is not passed.
run_sync_up == [message |-> PushPrompt, yes |-> "push", no |-> "none"]

\* lines 29-38: run_sync_down.
run_sync_down == [message |-> PullPrompt, yes |-> "pull", no |-> "none"]

\* The calls made by a callback that was handed to frappe.confirm.
RunConfirmCallback(cb) ==
    CASE cb = "push" -> push_confirmed
      [] cb = "pull" -> pull_confirmed
      [] OTHER       -> <<>>

\* Faulty variant (C2): the error indicator is not tested.
sync_up_callback_always(r) == <<r.message>>

\* line 24: callback: (r) => { if(!r.exc) frappe.msgprint(r.message); }
\* The messages it passes to frappe.msgprint.
sync_up_callback(r) == IF ~r.exc THEN <<r.message>> ELSE <<>>

\* line 35: the callback of the pull call.
sync_down_callback(r) == IF ~r.exc THEN <<r.message>> ELSE <<>>

RunCallCallback(c, r) ==
    IF c.callback = "up" THEN sync_up_callback(r) ELSE sync_down_callback(r)

(* ---------------------- lines 41-88: the control ----------------------- *)

\* Faulty variant (C14): the popup's markup lacks display: none.
NewControl_shown == [popup |-> TRUE, btn |-> 0, up |-> 0, down |-> 0]

\* lines 45-59: the injected subtree.  popup is FALSE for display: none.
\* btn, up and down count the click handlers bound to the button and to the
\* two links; the markup binds none.
NewControl == [popup |-> FALSE, btn |-> 0, up |-> 0, down |-> 0]

\* Faulty variant (C4): the previous instance is left in the document.
RemoveExisting_keep(d) == d

\* line 43: $('#sync-floating-btn').remove(): an id selector matches the
\* first element carrying the id; remove() drops it with its handlers.
RemoveExisting(d) == IF d = <<>> THEN d ELSE Tail(d)

\* line 61: $('body').append(btn_html).
AppendControl(d) == Append(d, NewControl)

\* line 64: $('#sync-floating-btn button').on('click', ...): a descendant
\* selector, matching the button of every element with the id.
BindButton(d) == [i \in DOMAIN d |-> [d[i] EXCEPT !.btn = @ + 1]]

\* Faulty variant (C15): the links' handlers survive re-creation (as
\* delegated handlers bound at the document would), so each run of
\* create_floating_button adds one to those that fire.
BindLinks_accumulating(d) ==
    IF d = <<>> THEN d
    ELSE [d EXCEPT ![1].up = docHandlers + 1, ![1].down = docHandlers + 1]

\* lines 70, 76: $('#float-sync-up').on / $('#float-sync-down').on: id
\* selectors, matching the first link with the id.
BindLinks(d) ==
    IF d = <<>> THEN d ELSE [d EXCEPT ![1].up = @ + 1, ![1].down = @ + 1]

\* $('#sync-popup-menu').hide(): an id selector, the first popup.
HidePopup(d) == IF d = <<>> THEN d ELSE [d EXCEPT ![1].popup = FALSE]

\* $('#sync-popup-menu').toggle().
TogglePopup(d) == IF d = <<>> THEN d ELSE [d EXCEPT ![1].popup = ~@]

PopupOpen == dom # <<>> /\ dom[1].popup

\* A click event: its target, and the two flags handlers may set on it.
Click(target) == [target |-> target, stopped |-> FALSE, prevented |-> FALSE]

NoEvent == Click("none")

Idle == page = "loaded" /\ evt = NoEvent

\* What a click handler can touch: the event, the document, the prompts.
HandlerState == [evt |-> evt, dom |-> dom, prompts |-> prompts]

\* Faulty variant (C7): the click is left to bubble to the document.
on_button_click_bubbling(s) == [s EXCEPT !.dom = TogglePopup(s.dom)]

\* lines 64-67: the button's click handler.
on_button_click(s) ==
    [s EXCEPT !.evt.stopped = TRUE,                          \* line 65
              !.dom = TogglePopup(s.dom)]                    \* line 66

\* Faulty variant (C9): the popup is left as it is.
on_sync_up_click_nohide(s) ==
    [s EXCEPT !.evt.prevented = TRUE,
              !.prompts = Append(s.prompts, run_sync_up)]

\* lines 70-74: the click handler of #float-sync-up.
on_sync_up_click(s) ==
    [s EXCEPT !.evt.prevented = TRUE,                        \* line 71
              !.dom = HidePopup(s.dom),                      \* line 72
              !.prompts = Append(s.prompts, run_sync_up)]    \* line 73

\* lines 76-80: the click handler of #float-sync-down.
on_sync_down_click(s) ==
    [s EXCEPT !.evt.prevented = TRUE,                        \* line 77
              !.dom = HidePopup(s.dom),                      \* line 78
              !.prompts = Append(s.prompts, run_sync_down)]  \* line 79

\* Faulty variant (C8): the dismiss handler toggles instead of hiding.
on_document_click_toggle(s) == [s EXCEPT !.dom = TogglePopup(s.dom)]

\* Faulty variant (C13): the dismiss handler removes the control.
on_document_click_remove(s) == [s EXCEPT !.dom = RemoveExisting(s.dom)]

\* lines 83-85: the click handler bound to document.
on_document_click(s) == [s EXCEPT !.dom = HidePopup(s.dom)]

Handle(kind, s) ==
    CASE kind = "button"   -> on_button_click(s)
      [] kind = "up"       -> on_sync_up_click(s)
      [] kind = "down"     -> on_sync_down_click(s)
      [] kind = "document" -> on_document_click(s)

\* jQuery's dispatch at one element: its n handlers of that kind, in turn.
RECURSIVE Dispatch(_, _, _)
Dispatch(kind, n, s) ==
    IF n = 0 THEN s ELSE Dispatch(kind, n - 1, Handle(kind, s))

\* Faulty variant (C6): only the presence of frappe itself is tested.
RuntimeMissing_frappeOnly == runtime = "absent"

\* line 7: typeof frappe === 'undefined' || typeof frappe.call === 'undefined'
RuntimeMissing == runtime = "absent" \/ runtime = "nocall"

\* Faulty variant (C5): the guest test is inverted.
IsGuest_inverted == user # "Guest"

\* line 13: frappe.session.user === 'Guest'
IsGuest == user = "Guest"

\* lines 41-88: create_floating_button, called with the console as the
\* caller left it.
create_floating_button(con) ==
    /\ dom' = BindLinks(BindButton(AppendControl(RemoveExisting(dom))))
    /\ docHandlers' = docHandlers + 1                       \* lines 83-85
    /\ console' = Append(con, "log: Sync App: Floating button created")  \* 87

(* ------------------------------ actions -------------------------------- *)

Init ==
    /\ runtime \in Runtimes
    /\ user \in Users
    /\ page = "loaded"
    /\ inits = 0
    /\ console = <<>>
    /\ sessionReads = 0
    /\ thrown = FALSE
    /\ dom = <<>>
    /\ docHandlers = 0
    /\ navigated = FALSE
    /\ evt = NoEvent
    /\ prompts = <<>>
    /\ accepted = [m \in {PushPrompt, PullPrompt} |-> 0]
    /\ calls = <<>>
    /\ inflight = {}
    /\ resolved = <<>>
    /\ notices = <<>>
    /\ last = "Init"

\* lines 5-92: the function handed to $(...), run when the DOM is ready.
Ready ==
    /\ last' = "Ready"
    /\ Idle
    /\ inits < MaxInit
    /\ inits' = inits + 1
    /\ IF RuntimeMissing
         THEN /\ console' = Append(console,
                                   "warn: Sync App: Frappe not loaded yet.")
              /\ UNCHANGED <<sessionReads, thrown, dom, docHandlers>>
         ELSE IF runtime = "absent"
           \* evaluating frappe.session.user with frappe undefined throws
           THEN /\ thrown' = TRUE
                /\ UNCHANGED <<console, sessionReads, dom, docHandlers>>
           ELSE /\ sessionReads' = sessionReads + 1
                /\ UNCHANGED thrown
                /\ IF IsGuest
                     THEN UNCHANGED <<console, dom, docHandlers>>
                     ELSE create_floating_button(                \* line 91
                            Append(console,
                                   "log: Sync App: Initializing..."))  \* 15
    /\ UNCHANGED <<envVars, page, navigated, evt, flowVars>>

\* The user clicks the round button of the i-th control: its handlers run.
ClickButton(i) ==
    /\ last' = "ClickButton"
    /\ Idle
    /\ i \in DOMAIN dom
    /\ LET s == Dispatch("button", dom[i].btn,
                         [HandlerState EXCEPT !.evt = Click("button")])
       IN  /\ evt' = s.evt
           /\ dom' = s.dom
           /\ prompts' = s.prompts
    /\ UNCHANGED <<envVars, page, initVars, docHandlers, navigated,
                   accepted, calls, inflight, resolved, notices>>

\* The user clicks "Sync Up (Push)" of the i-th control; the link can be
\* clicked only while its popup is displayed.
ClickSyncUp(i) ==
    /\ last' = "ClickSyncUp"
    /\ Idle
    /\ i \in DOMAIN dom
    /\ dom[i].popup
    /\ Len(prompts) < MaxPrompts
    /\ LET s == Dispatch("up", dom[i].up,
                         [HandlerState EXCEPT !.evt = Click("up")])
       IN  /\ evt' = s.evt
           /\ dom' = s.dom
           /\ prompts' = s.prompts
    /\ UNCHANGED <<envVars, page, initVars, docHandlers, navigated,
                   accepted, calls, inflight, resolved, notices>>

\* The user clicks "Sync Down (Pull)" of the i-th control.
ClickSyncDown(i) ==
    /\ last' = "ClickSyncDown"
    /\ Idle
    /\ i \in DOMAIN dom
    /\ dom[i].popup
    /\ Len(prompts) < MaxPrompts
    /\ LET s == Dispatch("down", dom[i].down,
                         [HandlerState EXCEPT !.evt = Click("down")])
       IN  /\ evt' = s.evt
           /\ dom' = s.dom
           /\ prompts' = s.prompts
    /\ UNCHANGED <<envVars, page, initVars, docHandlers, navigated,
                   accepted, calls, inflight, resolved, notices>>

\* The user clicks somewhere in the document outside the control: no
\* handler of the control is on the click's path below document.
ClickOutside ==
    /\ last' = "ClickOutside"
    /\ Idle
    /\ evt' = Click("outside")
    /\ UNCHANGED <<envVars, page, initVars, domVars, navigated, flowVars>>

\* The click being dispatched reaches document (unless a handler stopped
\* it): the handlers bound there run; then the browser performs the
\* target's default action unless a handler prevented it.
DocumentClick ==
    /\ last' = "DocumentClick"
    /\ page = "loaded"
    /\ evt # NoEvent
    /\ LET s == IF evt.stopped THEN HandlerState
                ELSE Dispatch("document", docHandlers, HandlerState)
       IN  /\ dom' = s.dom
           /\ prompts' = s.prompts
           /\ navigated' = (navigated \/ (evt.target \in {"up", "down"}
                                          /\ ~s.evt.prevented))
    /\ evt' = NoEvent
    /\ UNCHANGED <<envVars, page, initVars, docHandlers,
                   accepted, calls, inflight, resolved, notices>>

RemoveAt(q, j) == [i \in 1..(Len(q) - 1) |-> IF i < j THEN q[i] ELSE q[i + 1]]

\* Faulty variant (C12): the call is made synchronously: it is answered,
\* and its notice shown, within the step that issues it.
ConfirmYes_sync(j) ==
    /\ last' = "ConfirmYes"
    /\ Idle
    /\ j \in DOMAIN prompts
    /\ Len(calls) < MaxCalls
    /\ calls' = calls \o RunConfirmCallback(prompts[j].yes)
    /\ resolved' = Append(resolved, [id |-> Len(calls) + 1, exc |-> FALSE,
                                     message |-> "OK"])
    /\ notices' = Append(notices, "OK")
    /\ prompts' = RemoveAt(prompts, j)
    /\ accepted' = [accepted EXCEPT ![prompts[j].message] = @ + 1]
    /\ UNCHANGED <<envVars, page, initVars, domVars, navigated, evt, inflight>>

\* The user accepts the j-th pending prompt: frappe.confirm runs the
\* callback it was given; each frappe.call in it puts a request in flight.
ConfirmYes(j) ==
    /\ last' = "ConfirmYes"
    /\ Idle
    /\ j \in DOMAIN prompts
    /\ Len(calls) < MaxCalls
    /\ LET new == RunConfirmCallback(prompts[j].yes)
       IN  /\ calls' = calls \o new
           /\ inflight' = inflight \cup ((Len(calls) + 1)..(Len(calls) + Len(new)))
    /\ prompts' = RemoveAt(prompts, j)
    /\ accepted' = [accepted EXCEPT ![prompts[j].message] = @ + 1]
    /\ UNCHANGED <<envVars, page, initVars, domVars, navigated, evt,
                   resolved, notices>>

\* The user declines the j-th pending prompt: frappe.confirm runs the
\* decline callback, if it was given one.
ConfirmNo(j) ==
    /\ last' = "ConfirmNo"
    /\ Idle
    /\ j \in DOMAIN prompts
    /\ LET new == RunConfirmCallback(prompts[j].no)
       IN  /\ calls' = calls \o new
           /\ inflight' = inflight \cup ((Len(calls) + 1)..(Len(calls) + Len(new)))
    /\ prompts' = RemoveAt(prompts, j)
    /\ UNCHANGED <<envVars, page, initVars, domVars, navigated, evt,
                   accepted, resolved, notices>>

\* The request calls[id] completes with response r: frappe.call runs its
\* callback, and each frappe.msgprint in it displays a notice.
Resolve(id, r) ==
    /\ last' = "Resolve"
    /\ Idle
    /\ id \in inflight
    /\ inflight' = inflight \ {id}
    /\ resolved' = Append(resolved,
                          [id |-> id, exc |-> r.exc, message |-> r.message])
    /\ notices' = notices \o RunCallCallback(calls[id], r)
    /\ UNCHANGED <<envVars, page, initVars, domVars, navigated, evt,
                   prompts, accepted, calls>>

\* The page unloads: the document, with the control, the handlers and the
\* prompts, is discarded, and no callback of this page runs any more.
Unload ==
    /\ last' = "Unload"
    /\ Idle
    /\ page' = "unloaded"
    /\ dom' = <<>>
    /\ docHandlers' = 0
    /\ prompts' = <<>>
    /\ UNCHANGED <<envVars, initVars, navigated, evt, accepted, calls,
                   inflight, resolved, notices>>

Next ==
    \/ Ready
    \/ \E i \in 1..MaxInit : ClickButton(i)
    \/ \E i \in 1..MaxInit : ClickSyncUp(i)
    \/ \E i \in 1..MaxInit : ClickSyncDown(i)
    \/ ClickOutside
    \/ DocumentClick
    \/ \E j \in 1..MaxPrompts : ConfirmYes(j)
    \/ \E j \in 1..MaxPrompts : ConfirmNo(j)
    \/ \E id \in 1..MaxCalls, r \in Responses : Resolve(id, r)
    \/ Unload

Spec == Init /\ [][Next]_vars

(* ------------------------------ claims --------------------------------- *)

CountMethod(m) == Cardinality({i \in DOMAIN calls : calls[i].method = m})

C1_Counts ==
    /\ CountMethod(PushMethod) = accepted[PushPrompt]
    /\ CountMethod(PullMethod) = accepted[PullPrompt]
    /\ Len(calls) = accepted[PushPrompt] + accepted[PullPrompt]

C1_Step ==
    /\ calls' # calls =>
         /\ last' = "ConfirmYes"
         /\ \E j \in DOMAIN prompts :
              /\ prompts' = RemoveAt(prompts, j)
              /\ Len(calls') = Len(calls) + 1
              /\ SubSeq(calls', 1, Len(calls)) = calls
              /\ calls'[Len(calls')].method =
                   (IF prompts[j].message = PushPrompt
                      THEN PushMethod ELSE PullMethod)
    /\ Len(prompts') > Len(prompts) =>
         last' \in {"ClickSyncUp", "ClickSyncDown"}
    /\ last' = "Resolve" => calls' = calls

\* C1: the calls issued are exactly the accepted confirmations: per action,
\* the number of calls naming its operation equals the number of accepted
\* prompts of that action; a call is added only by the step that accepts a
\* pending prompt, one call per acceptance, naming that prompt's operation;
\* a prompt appears only by a menu-action click; and the resolution of a
\* call, with or without an error indicator, issues no call.
C1_OneCallPerAcceptedConfirmation == []C1_Counts /\ [][C1_Step]_vars

\* Both actions were confirmed once, two calls were issued, and one of them
\* has been answered with an error indicator.
C1_Witness ==
    /\ accepted[PushPrompt] = 1
    /\ accepted[PullPrompt] = 1
    /\ Len(calls) = 2
    /\ \E i \in DOMAIN resolved : resolved[i].exc

\* The messages of the responses delivered without an error indicator, in
\* the order of delivery.
SuccessMessages ==
    LET ok == SelectSeq(resolved, LAMBDA x : ~x.exc)
    IN  [i \in 1..Len(ok) |-> ok[i].message]

\* C2: the notices shown are, one for one and in order, the messages of the
\* responses that carried no error indicator; a response with an error
\* indicator adds none; every call is answered at most once.
C2_NoticeIffNoError ==
    /\ notices = SuccessMessages
    /\ \A i, k \in DOMAIN resolved :
         resolved[i].id = resolved[k].id => i = k
    /\ \A i \in DOMAIN resolved :
         resolved[i].id \in DOMAIN calls /\ resolved[i].id \notin inflight

\* Two calls overlapped; the second was answered first, with an error, and
\* the first afterwards, without: one notice, carrying the first's message.
C2_Witness ==
    /\ Len(resolved) = 2
    /\ resolved[1].id = 2 /\ resolved[1].exc
    /\ resolved[2].id = 1 /\ ~resolved[2].exc
    /\ notices = <<resolved[2].message>>
    /\ resolved[1].message # resolved[2].message

\* C3: a step that declines a prompt closes that prompt and changes nothing
\* else: no call is issued, and the popup, the control, the handlers, the
\* calls in flight and the notices are as before.
C3_DeclineIsNoOp ==
    [][last' = "ConfirmNo" =>
         /\ Len(prompts') = Len(prompts) - 1
         /\ UNCHANGED <<dom, docHandlers, calls, inflight, resolved, notices,
                        accepted, evt, navigated, page, initVars>>]_vars

\* A prompt has just been declined while a call is in flight and a notice
\* is on display.
C3_Witness ==
    /\ last = "ConfirmNo"
    /\ dom # <<>>
    /\ inflight # {}
    /\ notices # <<>>

\* C4: with the runtime available and a non-guest user, once the ready
\* handler has run (once or more) and the page is still loaded, the document
\* holds exactly one element with id sync-floating-btn.
C4_ExactlyOneControl ==
    (runtime = "ready" /\ user # "Guest" /\ inits >= 1 /\ page = "loaded")
        => Len(dom) = 1

\* The ready handler has just run for the second time and created the
\* control again.
C4_Witness ==
    /\ last = "Ready"
    /\ inits = 2
    /\ runtime = "ready" /\ user # "Guest"
    /\ Len(dom) = 1

\* C5: for the guest user there is never a control or a bound handler, so
\* no popup is open, no prompt is shown and no call is issued, whatever
\* happens after initialization.
C5_GuestGetsNothing ==
    user = "Guest" =>
        /\ dom = <<>>
        /\ docHandlers = 0
        /\ ~PopupOpen
        /\ prompts = <<>>
        /\ calls = <<>> /\ inflight = {}
        /\ ~thrown

\* The guest's page has a runtime, the ready handler has run, and a click
\* in the document has been processed since.
C5_Witness ==
    /\ user = "Guest" /\ runtime = "ready"
    /\ inits >= 1
    /\ last = "DocumentClick"

\* C6: without the runtime, or without its remote-call capability, every
\* run of the ready handler only writes the diagnostic: no control, no
\* handler, no read of the session identity, no exception.
C6_RuntimeMissingIsSilent ==
    runtime # "ready" =>
        /\ dom = <<>>
        /\ docHandlers = 0
        /\ sessionReads = 0
        /\ ~thrown
        /\ console = [i \in 1..inits |->
                        "warn: Sync App: Frappe not loaded yet."]

\* The ready handler has just run on a page whose runtime is incomplete.
C6_Witness ==
    /\ runtime # "ready"
    /\ last = "Ready"
    /\ inits >= 1

\* C7: a click on the button inverts the popup's visibility and is stopped
\* before it reaches the document; the rest of that click's dispatch leaves
\* the popup as the button's handler set it.
C7_ButtonToggles ==
    [][/\ last' = "ClickButton" =>
            /\ PopupOpen' = ~PopupOpen
            /\ evt'.stopped
       /\ (last' = "DocumentClick" /\ evt.target = "button") =>
            PopupOpen' = PopupOpen]_vars

\* A click has been processed to its end, past a bound dismiss handler, and
\* the popup is open: only a button click opens it.
C7_Witness ==
    /\ last = "DocumentClick"
    /\ evt = NoEvent
    /\ docHandlers >= 1
    /\ PopupOpen

\* C8: a click outside the control touches nothing on its way to the
\* document; once processed there the popup is closed, whether it was open
\* or closed; no prompt is shown and no call is issued by it.
C8_OutsideClickCloses ==
    [][/\ last' = "ClickOutside" =>
            UNCHANGED <<dom, prompts, accepted, calls, inflight>>
       /\ (last' = "DocumentClick" /\ evt.target = "outside") =>
            /\ ~PopupOpen'
            /\ UNCHANGED <<prompts, accepted, calls, inflight>>]_vars

\* An outside click is on its way to the document while the popup is open.
C8_Witness ==
    /\ last = "ClickOutside"
    /\ evt.target = "outside"
    /\ PopupOpen

C9_State ==
    evt.target \in {"up", "down"} =>
        /\ ~PopupOpen
        /\ prompts # <<>>
        /\ prompts[Len(prompts)].message =
             (IF evt.target = "up" THEN PushPrompt ELSE PullPrompt)

C9_Step ==
    /\ last' \in {"ClickSyncUp", "ClickSyncDown"} =>
         /\ PopupOpen
         /\ ~PopupOpen'
         /\ Len(prompts') = Len(prompts) + 1
    /\ (last' = "DocumentClick" /\ evt.target \in {"up", "down"}) =>
         /\ ~PopupOpen'
         /\ prompts' = prompts

\* C9: a click on a menu action, made while the popup is open, leaves the
\* popup closed and that action's prompt shown when its handler returns, and
\* the popup is still closed, with the same prompts, after the click has
\* been processed at the document.
C9_MenuActionHidesThenPrompts == []C9_State /\ [][C9_Step]_vars

\* "Sync Up" has just been clicked: its prompt is shown, the popup is
\* closed, and the click has yet to reach the document.
C9_Witness ==
    /\ last = "ClickSyncUp"
    /\ evt.target = "up"
    /\ docHandlers >= 1
    /\ ~PopupOpen
    /\ prompts # <<>>

\* C10: accepting a prompt while a call is unresolved puts one more call in
\* flight and leaves the earlier ones in flight.
C10_NoSingleFlightGuard ==
    [][(last' = "ConfirmYes" /\ inflight # {}) =>
          /\ inflight \subseteq inflight'
          /\ Cardinality(inflight') = Cardinality(inflight) + 1]_vars

\* Two calls are in flight at once.
C10_Witness ==
    /\ last = "ConfirmYes"
    /\ Cardinality(inflight) >= 2

\* The parameters frappe.call is given: those of lines 21-24 / 32-35.
CallParameters == {"method", "freeze", "freeze_message", "callback"}

IsPushCall(c) ==
    /\ DOMAIN c = CallParameters
    /\ c.method = "sync_app.sync.api.sync_up_to_master"
    /\ c.freeze = TRUE
    /\ c.freeze_message = "Pushing..."

IsPullCall(c) ==
    /\ DOMAIN c = CallParameters
    /\ c.method = "sync_app.sync.api.sync_down_from_master"
    /\ c.freeze = TRUE
    /\ c.freeze_message = "Pulling..."

C11_State ==
    /\ \A i \in DOMAIN calls : IsPushCall(calls[i]) \/ IsPullCall(calls[i])
    /\ \A j \in DOMAIN prompts :
         prompts[j].message \in {"Push changes to Master?",
                                 "Pull changes from Master?"}

C11_Step ==
    /\ last' = "ClickSyncUp" =>
         /\ Len(prompts') = Len(prompts) + 1
         /\ prompts'[Len(prompts')].message = "Push changes to Master?"
    /\ last' = "ClickSyncDown" =>
         /\ Len(prompts') = Len(prompts) + 1
         /\ prompts'[Len(prompts')].message = "Pull changes from Master?"
    /\ last' = "ConfirmYes" =>
         \E j \in DOMAIN prompts :
           /\ prompts' = RemoveAt(prompts, j)
           /\ Len(calls') = Len(calls) + 1
           /\ IF prompts[j].message = "Push changes to Master?"
                THEN IsPushCall(calls'[Len(calls')])
                ELSE IsPullCall(calls'[Len(calls')])

\* C11: the two flows never cross: a click on "Sync Up" shows the prompt
\* "Push changes to Master?" and a click on "Sync Down" the prompt "Pull
\* changes from Master?"; accepting a push prompt issues a call naming
\* sync_up_to_master with freeze and the caption "Pushing...", accepting a
\* pull prompt one naming sync_down_from_master with freeze and "Pulling...";
\* every call issued is one of these two and has no other parameter.
C11_FlowsNeverCross == []C11_State /\ [][C11_Step]_vars

\* A push and a pull have both been confirmed and issued, in that order.
C11_Witness ==
    /\ last = "ConfirmYes"
    /\ Len(calls) = 2
    /\ IsPushCall(calls[1])
    /\ IsPullCall(calls[2])

C12_State ==
    /\ Len(notices) <= Len(resolved)
    /\ \A i \in DOMAIN resolved : resolved[i].id \in DOMAIN calls
    /\ inflight \subseteq DOMAIN calls
    /\ page = "unloaded" => ~ENABLED (\E id \in inflight, r \in Responses :
                                         Resolve(id, r))

C12_Step ==
    /\ last' = "ConfirmYes" =>
         /\ notices' = notices /\ resolved' = resolved
         /\ (Len(calls) + 1)..Len(calls') \subseteq inflight'
    /\ notices' # notices =>
         /\ last' = "Resolve"
         /\ page = "loaded" /\ page' = "loaded"
         /\ \E id \in inflight :
              /\ inflight' = inflight \ {id}
              /\ Len(resolved') = Len(resolved) + 1
              /\ resolved'[Len(resolved')].id = id
              /\ notices' = Append(notices, resolved'[Len(resolved')].message)
    /\ ~(inflight \subseteq inflight') => last' = "Resolve"
    /\ page = "unloaded" => (notices' = notices /\ inflight' = inflight)

\* C12: issuing a call and handling its response are separate steps: the
\* step that issues a call leaves it in flight and shows no notice; a notice
\* appears only in a later step that resolves a call then in flight, on a
\* loaded page, and carries that response's message; a call leaves the set
\* in flight only by being resolved (nothing cancels it); once the page is
\* unloaded no call in flight can be resolved and no notice is added.
C12_IssueAndResponseAreSeparate == []C12_State /\ [][C12_Step]_vars

\* The page was unloaded with a call still in flight, after another call
\* had been issued, resolved later and its notice shown.
C12_Witness ==
    /\ page = "unloaded"
    /\ inflight # {}
    /\ notices # <<>>

\* C13: from a state with exactly one control, every step that leaves the
\* page loaded leads to a state with exactly one control; clicks leave the
\* number of controls and their handlers as they are; accepting or declining
\* a prompt and resolving a call leave the whole document, the popup's
\* visibility included, as it is.
C13_ControlPersists ==
    [][/\ (Len(dom) = 1 /\ page' = "loaded") => Len(dom') = 1
       /\ last' \in {"ClickButton", "ClickSyncUp", "ClickSyncDown",
                     "ClickOutside", "DocumentClick"} =>
            /\ Len(dom') = Len(dom)
            /\ \A i \in DOMAIN dom :
                 [dom'[i] EXCEPT !.popup = FALSE] =
                 [dom[i] EXCEPT !.popup = FALSE]
       /\ last' \in {"ConfirmYes", "ConfirmNo", "Resolve"} =>
            UNCHANGED <<dom, docHandlers>>]_vars

\* A call has just been resolved while the popup of the one control is open.
C13_Witness ==
    /\ last = "Resolve"
    /\ Len(dom) = 1
    /\ PopupOpen
    /\ resolved # <<>>

\* C14: right after a run of the ready handler that leaves a control in the
\* document, no popup is displayed.
C14_ClosedAfterInit ==
    (last = "Ready" /\ dom # <<>>) => \A i \in DOMAIN dom : ~dom[i].popup

\* The ready handler has just created the control for the second time, on a
\* page where prompts were shown before (so the earlier popup had been used).
C14_Witness ==
    /\ last = "Ready"
    /\ inits = 2
    /\ Len(dom) = 1
    /\ ~PopupOpen
    /\ prompts # <<>>

C15_State ==
    (page = "loaded" /\ runtime = "ready" /\ user # "Guest") =>
        /\ docHandlers = inits
        /\ \A i \in DOMAIN dom :
             dom[i].btn = 1 /\ dom[i].up = 1 /\ dom[i].down = 1

C15_Step ==
    inits >= 2 =>
        /\ last' = "ClickButton" => PopupOpen' = ~PopupOpen
        /\ last' \in {"ClickSyncUp", "ClickSyncDown"} =>
             Len(prompts') = Len(prompts) + 1
        /\ (last' = "DocumentClick" /\ evt.target = "outside") =>
             (~PopupOpen' /\ docHandlers' = docHandlers)

\* C15: after n runs of the ready handler the document carries n dismiss
\* handlers and the control carries one handler on its button and one on
\* each link; for n >= 2 a click on the button inverts the popup's
\* visibility once, a click on a menu action shows one prompt, and an
\* outside click leaves the popup closed and unbinds nothing.
C15_OnlyDismissHandlersAccumulate == []C15_State /\ [][C15_Step]_vars

\* After two runs of the ready handler, "Sync Up" has just been clicked and
\* one prompt is shown; the document carries two dismiss handlers.
C15_Witness ==
    /\ last = "ClickSyncUp"
    /\ inits = 2
    /\ docHandlers = 2
    /\ Len(prompts) = 1

=============================================================================
